---------------------------- MODULE Spec2Model ----------------------------
(***************************************************************************)
(* A model of dmto-ecash: the mint (key registry, spent-secret ledger,     *)
(* verify_and_spend, swap), the blind-signature engine used by swap, and    *)
(* the wallet (mint_note, spend).                                           *)
(*                                                                         *)
(* The secp256k1 group is modelled by the additive group of integers        *)
(* modulo the prime Order with generator 1: a point is written as its       *)
(* discrete logarithm, the identity is 0, and a PublicKey is a non-zero     *)
(* element.  SHA-256 is modelled by fixed arithmetic functions whose        *)
(* digests range over 0..Order, so that a digest can be zero or not below   *)
(* the group order, as a 32-byte digest can.  u64 arithmetic is modelled    *)
(* modulo U64Modulus, a scaled-down 2^64.                                   *)
(***************************************************************************)
EXTENDS Integers, Sequences, FiniteSets, TLC

\* Order of the group that stands for secp256k1 (a prime).
Order == 5

\* Number of values of the unsigned type that stands for u64.
U64Modulus == 8

\* The wallet holds at most MaxNotes notes.
MaxNotes == 3

\* A swap request has at most MaxInputs inputs and MaxOutputs outputs.
MaxInputs == 2

MaxOutputs == 2

\* Number of threads calling verify_and_spend concurrently.
NumThreads == 2

VARIABLES
    keys,       \* Mint.keys: denomination -> MintKey
    spent,      \* Mint.spent: set of secrets
    notes,      \* Wallet.notes: sequence of Note
    last,       \* the most recent call: operation, arguments, locals at return, result
    accepted,   \* history: secrets on which a verify_and_spend call returned true
    pc,         \* thread -> position inside verify_and_spend
    tnote,      \* thread -> the note it presents
    tret,       \* thread -> value returned by its verify_and_spend call
    exchange,   \* one blind-signature exchange: inputs, stage and results
    retry       \* the retry loop being run: function, counter, candidate, result

vars == <<keys, spent, notes, last, accepted, pc, tnote, tret, exchange, retry>>

-----------------------------------------------------------------------------
(* Group and scalar arithmetic (secp256k1 crate).                          *)

Points == 1 .. (Order - 1)

\* The non-zero scalars.
Scalars == 1 .. (Order - 1)

\* PublicKey::from_secret_key: sk * G with G = 1.
PubFromSecret(sk) == sk % Order

\* PublicKey::mul_tweak: k * p; the crate returns Err for a zero tweak.
MulTweak(p, k) == (p * k) % Order

\* PublicKey::combine: p1 + p2; the crate returns Err for the identity (0).
Combine(p1, p2) == (p1 + p2) % Order

\* PublicKey::negate.
Negate(p) == (Order - p) % Order

\* u64 addition in a build without overflow checks.
WrapAdd(a, b) == (a + b) % U64Modulus


-----------------------------------------------------------------------------
(* hash.rs                                                                 *)

\* Sha256("ecash_hash_to_curve" || secret || ctr): a digest in 0..Order.
\* Digest 0 and digest Order are not valid secret keys.
H2CDigest(secret, ctr) == (secret + Order + (Order - 1) * ctr) % (Order + 1)

RECURSIVE HashToCurveFrom(_, _)
HashToCurveFrom(secret, ctr) ==
    LET hash == H2CDigest(secret, ctr)
    IN  IF hash >= 1 /\ hash < Order
        THEN PubFromSecret(hash)
        ELSE HashToCurveFrom(secret, ctr + 1)

hash_to_curve(secret) == HashToCurveFrom(secret, 0)

-----------------------------------------------------------------------------
(* types.rs, mint.rs                                                       *)

Note(value, secret, y, c) == [value |-> value, secret |-> secret, y |-> y, c |-> c]

\* A MintKey that records the denomination after the one it was made for.
MintKey_next_value(value, privkey) ==
    [value |-> value + 1, privkey |-> privkey, pubkey |-> PubFromSecret(privkey)]

\* MintKey::new(value) with the private key the generator produced.
MintKey(value, privkey) ==
    [value |-> value, privkey |-> privkey, pubkey |-> PubFromSecret(privkey)]

\* The checks of Mint::verify_and_spend that read only the key registry:
\* the key lookup, the denomination check and the signature check.
signature_ok(ks, note) ==
    IF note.value \notin DOMAIN ks
    THEN FALSE
    ELSE LET key == ks[note.value]
             expected == MulTweak(note.y, key.privkey)
         IN  IF key.value # note.value THEN FALSE
             ELSE IF note.c # expected THEN FALSE
             ELSE TRUE

\* A verify_and_spend that does not look the secret up in the ledger.
verify_and_spend_no_lookup(ks, sp, note) ==
    IF ~signature_ok(ks, note) THEN [ok |-> FALSE, spent |-> sp]
    ELSE [ok |-> TRUE, spent |-> sp \cup {note.secret}]

\* A verify_and_spend that returns true without inserting the secret.
verify_and_spend_no_insert(ks, sp, note) ==
    IF ~signature_ok(ks, note) THEN [ok |-> FALSE, spent |-> sp]
    ELSE IF note.secret \in sp THEN [ok |-> FALSE, spent |-> sp]
    ELSE [ok |-> TRUE, spent |-> sp]

\* A verify_and_spend that inserts the secret before it checks the signature.
verify_and_spend_insert_first(ks, sp, note) ==
    IF note.secret \in sp THEN [ok |-> FALSE, spent |-> sp]
    ELSE IF ~signature_ok(ks, note) THEN [ok |-> FALSE, spent |-> sp \cup {note.secret}]
    ELSE [ok |-> TRUE, spent |-> sp \cup {note.secret}]

\* A verify_and_spend that takes the secret out of the ledger when it finds
\* it there.
verify_and_spend_releases(ks, sp, note) ==
    IF ~signature_ok(ks, note) THEN [ok |-> FALSE, spent |-> sp]
    ELSE IF note.secret \in sp THEN [ok |-> FALSE, spent |-> sp \ {note.secret}]
    ELSE [ok |-> TRUE, spent |-> sp \cup {note.secret}]

\* Mint::verify_and_spend run to completion on ledger sp:
\* the value returned and the ledger afterwards.
verify_and_spend(ks, sp, note) ==
    IF ~signature_ok(ks, note) THEN [ok |-> FALSE, spent |-> sp]
    ELSE IF note.secret \in sp THEN [ok |-> FALSE, spent |-> sp]
    ELSE [ok |-> TRUE, spent |-> sp \cup {note.secret}]

\* The loop `for n in &inputs { if !self.verify_and_spend(n) { return None } }`
\* from input i on: whether every call returned true, the ledger afterwards and
\* the secrets of the calls that returned true.
RECURSIVE spend_each(_, _, _, _, _)
spend_each(ks, sp, won, inputs, i) ==
    IF i > Len(inputs)
    THEN [ok |-> TRUE, spent |-> sp, won |-> won]
    ELSE LET r == verify_and_spend(ks, sp, inputs[i])
         IN  IF ~r.ok
             THEN [ok |-> FALSE, spent |-> r.spent, won |-> won]
             ELSE spend_each(ks, r.spent, won \cup {inputs[i].secret}, inputs, i + 1)

\* Iterator::sum over u64, from element i on with running total acc: the
\* wrapped total and whether an addition overflowed.
RECURSIVE SumU64(_, _, _)
SumU64(values, i, acc) ==
    IF i > Len(values)
    THEN [value |-> acc, overflow |-> FALSE]
    ELSE LET rest == SumU64(values, i + 1, WrapAdd(acc, values[i]))
         IN  [value |-> rest.value,
              overflow |-> rest.overflow \/ acc + values[i] >= U64Modulus]

NoteValuesOf(inputs) == [i \in 1 .. Len(inputs) |-> inputs[i].value]

OutputValuesOf(outputs) == [i \in 1 .. Len(outputs) |-> outputs[i][1]]

-----------------------------------------------------------------------------
(* blind.rs                                                                *)

\* Sha256(R1 || R2 || A || C'): the digest, one for each sequence of four
\* serialized points (the hash has no collisions).
DleqHash(r1, r2, a_pub, c_prime) ==
    r1 + Order * r2 + Order * Order * a_pub + Order * Order * Order * c_prime
       + (Order - 1)

\* The number a digest or a Scalar stands for: 0 .. Order - 1 when it is
\* below the group order, Order when it is not.
ScalarValue(bytes) == bytes % (Order + 1)

\* blind_message with blinding factor r drawn by random_scalar.  The unwrap
\* of combine panics when y + r*G is the identity.
blind_message(y, r) ==
    LET r_g == PubFromSecret(r)
        blinded_point == Combine(y, r_g)
    IN  IF blinded_point = 0
        THEN [panicked |-> TRUE, blinded_point |-> 0, blind_factor |-> 0]
        ELSE [panicked |-> FALSE, blinded_point |-> blinded_point, blind_factor |-> r]

\* blind_sign with nonce r drawn by random_scalar.  The three unwraps on
\* values computed from the digest panic when the digest is not below the
\* order (Scalar::from_be_bytes), when it is zero (SecretKey::from_slice) and
\* when r + e*a is zero (SecretKey::add_tweak).  The Scalar e is kept as its
\* bytes, which are the digest's.
blind_sign(privkey, blinded_point, r) ==
    LET a == privkey
        c_prime == MulTweak(blinded_point, a)
        r_g == PubFromSecret(r)
        r_b == MulTweak(blinded_point, r)
        a_pub == PubFromSecret(privkey)
        hash == DleqHash(r_g, r_b, a_pub, c_prime)
        e == ScalarValue(hash)
        s1 == (e * a) % Order
        s == (r + s1) % Order
    IN  IF e >= Order \/ e = 0 \/ s = 0
        THEN [panicked |-> TRUE, sig |-> 0, e |-> 0, s |-> 0]
        ELSE [panicked |-> FALSE, sig |-> c_prime, e |-> hash, s |-> s]

\* unblind_signature: C' - r*K.  The unwrap of combine panics when the
\* difference is the identity.
unblind_signature(blind_sig, blind_factor, mint_pubkey) ==
    LET r_k == MulTweak(mint_pubkey, blind_factor)
        c == Combine(blind_sig, Negate(r_k))
    IN  IF c = 0
        THEN [panicked |-> TRUE, c |-> 0]
        ELSE [panicked |-> FALSE, c |-> c]

\* verify_dleq on a proof (e, s) with e given as its bytes.  mul_tweak by a
\* zero e, SecretKey::from_slice of a zero s, either combine giving the
\* identity and a recomputed digest not below the order make an unwrap panic.
verify_dleq(b_prime, c_prime, a_pub, e, s) ==
    LET ev == ScalarValue(e)
        e_a == MulTweak(a_pub, ev)
        r1 == Combine(PubFromSecret(s), Negate(e_a))
        e_c == MulTweak(c_prime, ev)
        r2 == Combine(MulTweak(b_prime, s), Negate(e_c))
        hash == DleqHash(r1, r2, a_pub, c_prime)
    IN  IF ev = 0 \/ s = 0 \/ r1 = 0 \/ r2 = 0 \/ ScalarValue(hash) >= Order
        THEN [panicked |-> TRUE, ok |-> FALSE]
        ELSE [panicked |-> FALSE, ok |-> (hash = e)]

\* A signing loop that returns the signatures in the reverse of the order of
\* the outputs.
RECURSIVE sign_each_reversed(_, _, _, _, _)
sign_each_reversed(ks, outputs, nonces, i, sigs) ==
    IF i > Len(outputs)
    THEN [exit |-> "some", sigs |-> sigs]
    ELSE LET value == outputs[i][1]
             blinded == outputs[i][2]
         IN  IF value \notin DOMAIN ks
             THEN [exit |-> "output", sigs |-> <<>>]
             ELSE LET b == blind_sign(ks[value].privkey, blinded, nonces[i])
                  IN  IF b.panicked
                      THEN [exit |-> "panic", sigs |-> <<>>]
                      ELSE sign_each_reversed(ks, outputs, nonces, i + 1,
                                     <<[sig |-> b.sig, e |-> b.e, s |-> b.s]>> \o sigs)

\* The loop `for (value, blinded) in outputs { let key = self.keys.get(&value)?;
\* sigs.push(blind_sign(..)) }` from output i on.
RECURSIVE sign_each(_, _, _, _, _)
sign_each(ks, outputs, nonces, i, sigs) ==
    IF i > Len(outputs)
    THEN [exit |-> "some", sigs |-> sigs]
    ELSE LET value == outputs[i][1]
             blinded == outputs[i][2]
         IN  IF value \notin DOMAIN ks
             THEN [exit |-> "output", sigs |-> <<>>]
             ELSE LET b == blind_sign(ks[value].privkey, blinded, nonces[i])
                  IN  IF b.panicked
                      THEN [exit |-> "panic", sigs |-> <<>>]
                      ELSE sign_each(ks, outputs, nonces, i + 1,
                                     Append(sigs, [sig |-> b.sig, e |-> b.e, s |-> b.s]))


-----------------------------------------------------------------------------
(* wallet.rs                                                               *)

\* The selection loop of Wallet::spend from note i on:
\* `for n in &self.notes { if sum >= amount { break } selected.push(n); sum += n.value }`.
\* checks: the build has overflow checks, and `sum += n.value` panics on overflow.
RECURSIVE select(_, _, _, _, _, _)
select(ns, amount, i, selected, sum, checks) ==
    IF i > Len(ns) \/ sum >= amount
    THEN [panicked |-> FALSE, selected |-> selected, sum |-> sum]
    ELSE IF checks /\ sum + ns[i].value >= U64Modulus
         THEN [panicked |-> TRUE, selected |-> selected, sum |-> sum]
         ELSE select(ns, amount, i + 1, Append(selected, ns[i]),
                     WrapAdd(sum, ns[i].value), checks)

\* A retain that drops the notes equal in every field to a selected note.
retain_equal_notes(ns, selected) ==
    SelectSeq(ns, LAMBDA n : ~(\E j \in 1 .. Len(selected) : selected[j] = n))

\* `self.notes.retain(|n| !selected.iter().any(|s| s.secret == n.secret))`
retain(ns, selected) ==
    SelectSeq(ns, LAMBDA n : ~(\E j \in 1 .. Len(selected) : selected[j].secret = n.secret))

-----------------------------------------------------------------------------
(* The calls the model makes and the values it draws.                      *)

NoNote == Note(0, 0, 0, 0)

\* The record of a call: the operation, its arguments, the locals at the
\* return and the result.  exit names the return that was taken.
NoCall ==
    [op |-> "none", note |-> NoNote, inputs |-> <<>>, outputs |-> <<>>,
     value |-> 0, secret |-> 0, amount |-> 0, selected |-> <<>>, sum |-> 0,
     in_sum |-> 0, out_sum |-> 0, exit |-> "none", ok |-> FALSE, sigs |-> <<>>,
     held |-> <<>>]

\* The denominations given to Mint::new.
Denominations == {2, 5}

\* The denominations found in notes and requests: the configured ones and
\* the largest value of the type, which is not configured.
NoteValues == Denominations \cup {U64Modulus - 1}

\* The secrets the generator gives notes (32 random bytes in the code).
Secrets == {1, 2}

\* The private keys the generator gives Mint::new.
PrivateKeys == {2, 3}

\* The nonces random_scalar gives blind_sign.
Nonces == {1, 2}

\* The blinded point sent with each output of a swap request.
BlindedPoints == {2}

\* The note Wallet::mint_note builds for a denomination and a secret.
Minted(ks, value, secret) ==
    LET y == hash_to_curve(secret)
    IN  Note(value, secret, y, MulTweak(y, ks[value].privkey))

AllMinted(ks) == {Minted(ks, v, s) : v \in DOMAIN ks, s \in Secrets}

\* Notes presented to the mint: the issued ones, and one issued note with its
\* signature altered, with an unconfigured denomination, and with each other
\* secret put in place of its own.
FirstNote(ks) == Minted(ks, 5, 1)

Forged(n) == [n EXCEPT !.c = (n.c % (Order - 1)) + 1]

Unknown(n) == [n EXCEPT !.value = U64Modulus - 1]

SwapPool(ks) == AllMinted(ks) \cup {Forged(FirstNote(ks)), Unknown(FirstNote(ks))}

NotePool(ks) == SwapPool(ks) \cup {[FirstNote(ks) EXCEPT !.secret = s] : s \in Secrets}

SeqsUpTo(S, n) == UNION {[1 .. k -> S] : k \in 0 .. n}

OutputPool == NoteValues \X BlindedPoints

Threads == 1 .. NumThreads

-----------------------------------------------------------------------------
(* The operations, run to completion.                                      *)

\* Mint::swap.  checks: the build has overflow checks, and the two sums panic
\* on overflow.  nonces[i] is the nonce random_scalar gives blind_sign for
\* output i.
swap(ks, sp, inputs, outputs, checks, nonces) ==
    LET in_sum == SumU64(NoteValuesOf(inputs), 1, 0)
        out_sum == SumU64(OutputValuesOf(outputs), 1, 0)
        none == [exit |-> "sum", spent |-> sp, won |-> {}, sigs |-> <<>>,
                 in_sum |-> in_sum.value, out_sum |-> out_sum.value]
    IN  IF checks /\ (in_sum.overflow \/ out_sum.overflow)
        THEN [none EXCEPT !.exit = "panic"]
        ELSE IF in_sum.value # out_sum.value
        THEN none
        ELSE LET r == spend_each(ks, sp, {}, inputs, 1)
             IN  IF ~r.ok
                 THEN [none EXCEPT !.exit = "input", !.spent = r.spent, !.won = r.won]
                 ELSE LET g == sign_each(ks, outputs, nonces, 1, <<>>)
                      IN  [none EXCEPT !.exit = g.exit, !.spent = r.spent,
                                       !.won = r.won, !.sigs = g.sigs]

\* Wallet::mint_note with the secret the generator produced.
mint_note(ks, ns, value, secret) ==
    IF value \notin DOMAIN ks
    THEN [exit |-> "panic", notes |-> ns]
    ELSE [exit |-> "done", notes |-> Append(ns, Minted(ks, value, secret))]

\* A spend that drops the selected notes from the wallet when the mint has
\* rejected one of them.
spend_forgets_rejected(ks, sp, ns, amount, checks) ==
    LET sel == select(ns, amount, 1, <<>>, 0, checks)
        out == [exit |-> "sum", spent |-> sp, won |-> {}, notes |-> ns,
                selected |-> sel.selected, sum |-> sel.sum]
    IN  IF sel.panicked
        THEN [out EXCEPT !.exit = "panic"]
        ELSE IF sel.sum # amount
        THEN out
        ELSE LET r == spend_each(ks, sp, {}, sel.selected, 1)
             IN  IF ~r.ok
                 THEN [out EXCEPT !.exit = "rejected", !.spent = r.spent, !.won = r.won,
                                  !.notes = retain(ns, sel.selected)]
                 ELSE [out EXCEPT !.exit = "true", !.spent = r.spent, !.won = r.won,
                                  !.notes = retain(ns, sel.selected)]

\* Wallet::spend.
spend(ks, sp, ns, amount, checks) ==
    LET sel == select(ns, amount, 1, <<>>, 0, checks)
        out == [exit |-> "sum", spent |-> sp, won |-> {}, notes |-> ns,
                selected |-> sel.selected, sum |-> sel.sum]
    IN  IF sel.panicked
        THEN [out EXCEPT !.exit = "panic"]
        ELSE IF sel.sum # amount
        THEN out
        ELSE LET r == spend_each(ks, sp, {}, sel.selected, 1)
             IN  IF ~r.ok
                 THEN [out EXCEPT !.exit = "rejected", !.spent = r.spent, !.won = r.won]
                 ELSE [out EXCEPT !.exit = "true", !.spent = r.spent, !.won = r.won,
                                  !.notes = retain(ns, sel.selected)]

-----------------------------------------------------------------------------
(* The state machine.                                                      *)

\* No blind-signature exchange has begun.  The fields hold, as the exchange
\* goes on, the denomination asked for, the message point, the result of
\* blind_message, the result of blind_sign, the result of unblind_signature,
\* the points given to verify_dleq with its result, and the function that
\* panicked if one did.
NoExchange ==
    [stage |-> "none", value |-> 0, y |-> 0,
     blinded_point |-> 0, blind_factor |-> 0,
     sig |-> 0, e |-> 0, s |-> 0,
     c |-> 0,
     b_prime |-> 0, c_prime |-> 0, a_pub |-> 0, ok |-> FALSE,
     panicked |-> "none"]

\* No retry loop is running.  The fields hold the function that loops, the
\* secret and the counter of hash_to_curve, the candidate last tried, and
\* the value returned.
NoRetry ==
    [fn |-> "none", status |-> "idle", secret |-> 0, ctr |-> 0, bytes |-> 0,
     result |-> 0]

\* The keys the generator gives the denominations: one scalar each, no two
\* alike.
KeyChoices ==
    {privkey \in [Denominations -> PrivateKeys] :
        \A v, w \in Denominations : v # w => privkey[v] # privkey[w]}

\* Mint::new(denoms) with the keys the generator produced, an empty wallet,
\* and no thread inside the mint.
Init ==
    /\ \E privkey \in KeyChoices :
          keys = [v \in Denominations |-> MintKey(v, privkey[v])]
    /\ spent = {}
    /\ notes = <<>>
    /\ last = NoCall
    /\ accepted = {}
    /\ pc = [t \in Threads |-> "idle"]
    /\ tnote = [t \in Threads |-> NoNote]
    /\ tret = [t \in Threads |-> FALSE]
    /\ exchange = NoExchange
    /\ retry = NoRetry

\* No call is in progress: the caller has taken the result of the last one.
Idle == last = NoCall

VerifyAndSpend(note) ==
    /\ LET r == verify_and_spend(keys, spent, note)
       IN  /\ spent' = r.spent
           /\ accepted' = IF r.ok THEN accepted \cup {note.secret} ELSE accepted
           /\ last' = [NoCall EXCEPT !.op = "verify_and_spend", !.note = note,
                                     !.ok = r.ok,
                                     !.exit = IF r.ok THEN "true" ELSE "false"]
    /\ UNCHANGED <<keys, notes, pc, tnote, tret, exchange, retry>>

Swap(inputs, outputs, checks, nonces) ==
    /\ LET r == swap(keys, spent, inputs, outputs, checks, nonces)
       IN  /\ spent' = r.spent
           /\ accepted' = accepted \cup r.won
           /\ last' = [NoCall EXCEPT !.op = "swap", !.inputs = inputs,
                                     !.outputs = outputs, !.in_sum = r.in_sum,
                                     !.out_sum = r.out_sum, !.exit = r.exit,
                                     !.ok = (r.exit = "some"), !.sigs = r.sigs]
    /\ UNCHANGED <<keys, notes, pc, tnote, tret, exchange, retry>>

MintNote(value, secret) ==
    /\ Len(notes) < MaxNotes
    /\ LET r == mint_note(keys, notes, value, secret)
       IN  /\ notes' = r.notes
           /\ last' = [NoCall EXCEPT !.op = "mint_note", !.value = value,
                                     !.secret = secret, !.exit = r.exit,
                                     !.ok = (r.exit = "done")]
    /\ UNCHANGED <<keys, spent, accepted, pc, tnote, tret, exchange, retry>>

Spend(amount, checks) ==
    /\ LET r == spend(keys, spent, notes, amount, checks)
       IN  /\ spent' = r.spent
           /\ accepted' = accepted \cup r.won
           /\ notes' = r.notes
           /\ last' = [NoCall EXCEPT !.op = "spend", !.amount = amount,
                                     !.held = notes,
                                     !.selected = r.selected, !.sum = r.sum,
                                     !.exit = r.exit, !.ok = (r.exit = "true")]
    /\ UNCHANGED <<keys, pc, tnote, tret, exchange, retry>>

\* The builds a call can tell apart: with and without overflow checks when
\* one of its additions overflows, one build otherwise.
Builds(overflows) == IF overflows THEN BOOLEAN ELSE {FALSE}

SwapOverflows(inputs, outputs) ==
    \/ SumU64(NoteValuesOf(inputs), 1, 0).overflow
    \/ SumU64(OutputValuesOf(outputs), 1, 0).overflow

SpendOverflows(amount) == select(notes, amount, 1, <<>>, 0, TRUE).panicked

FirstNonces(outputs) == [i \in 1 .. Len(outputs) |-> 1]

\* The nonces a swap draws: one for each output, when it comes to signing.
NoncesFor(inputs, outputs, checks) ==
    IF swap(keys, spent, inputs, outputs, checks, FirstNonces(outputs)).exit
          \in {"some", "panic"}
    THEN [1 .. Len(outputs) -> Nonces]
    ELSE {FirstNonces(outputs)}

SwapRequests ==
    SeqsUpTo(SwapPool(keys), MaxInputs) \X SeqsUpTo(OutputPool, MaxOutputs)

AnySwap ==
    /\ Idle
    /\ \E req \in SwapRequests :
          \E checks \in Builds(SwapOverflows(req[1], req[2])) :
             \E nonces \in NoncesFor(req[1], req[2], checks) :
                Swap(req[1], req[2], checks, nonces)

\* main.rs: the holder's notes are swapped for new outputs.
SwapNotes ==
    /\ Idle
    /\ \E outputs \in SeqsUpTo(OutputPool, MaxOutputs) :
          \E checks \in Builds(SwapOverflows(notes, outputs)) :
             \E nonces \in NoncesFor(notes, outputs, checks) :
                Swap(notes, outputs, checks, nonces)

AnyVerifyAndSpend ==
    /\ Idle
    /\ \E note \in NotePool(keys) : VerifyAndSpend(note)

AnyMintNote ==
    /\ Idle
    /\ \E value \in NoteValues, secret \in Secrets : MintNote(value, secret)

AnySpend ==
    /\ Idle
    /\ \E amount \in 0 .. (U64Modulus - 1) :
          \E checks \in Builds(SpendOverflows(amount)) : Spend(amount, checks)

\* The caller takes the result of a call that returned; a panic ends the run.
Return ==
    /\ last.op # "none"
    /\ last.exit # "panic"
    /\ last' = NoCall
    /\ UNCHANGED <<keys, spent, notes, accepted, pc, tnote, tret, exchange, retry>>

\* The holder and the mint, one call at a time.
Next == AnyVerifyAndSpend \/ SwapNotes \/ AnyMintNote \/ AnySpend \/ Return

Spec == Init /\ [][Next]_vars

\* The mint serving arbitrary requests, one call at a time.
MintNext == AnyVerifyAndSpend \/ AnySwap \/ Return

MintSpec == Init /\ [][MintNext]_vars

-----------------------------------------------------------------------------
(* Threads inside Mint::verify_and_spend.  The key registry is read-only;  *)
(* DashSet::contains and DashSet::insert are each atomic.                  *)

\* A thread calls verify_and_spend(note) and runs the checks that read only
\* the keys (mint.rs lines 51-67).
Call(t, note) ==
    /\ pc[t] = "idle"
    /\ tnote' = [tnote EXCEPT ![t] = note]
    /\ IF signature_ok(keys, note)
       THEN /\ pc' = [pc EXCEPT ![t] = "contains"]
            /\ tret' = tret
       ELSE /\ pc' = [pc EXCEPT ![t] = "done"]
            /\ tret' = [tret EXCEPT ![t] = FALSE]
    /\ UNCHANGED <<keys, spent, notes, last, accepted, exchange, retry>>

\* `if self.spent.contains(&note.secret) { return false; }`
Contains(t) ==
    /\ pc[t] = "contains"
    /\ IF tnote[t].secret \in spent
       THEN /\ pc' = [pc EXCEPT ![t] = "done"]
            /\ tret' = [tret EXCEPT ![t] = FALSE]
       ELSE /\ pc' = [pc EXCEPT ![t] = "insert"]
            /\ tret' = tret
    /\ UNCHANGED <<keys, spent, notes, last, accepted, tnote, exchange, retry>>

\* `self.spent.insert(note.secret.clone()); true`
Insert(t) ==
    /\ pc[t] = "insert"
    /\ spent' = spent \cup {tnote[t].secret}
    /\ accepted' = accepted \cup {tnote[t].secret}
    /\ pc' = [pc EXCEPT ![t] = "done"]
    /\ tret' = [tret EXCEPT ![t] = TRUE]
    /\ UNCHANGED <<keys, notes, last, tnote, exchange, retry>>

ConcNext ==
    \E t \in Threads :
       \/ \E note \in NotePool(keys) : Call(t, note)
       \/ Contains(t)
       \/ Insert(t)

ConcSpec == Init /\ [][ConcNext]_vars

-----------------------------------------------------------------------------
(* One blind-signature exchange between a holder and the mint: the holder   *)
(* blinds a message point, the mint signs it with the key of a              *)
(* denomination, the holder unblinds the signature and checks the proof.    *)

\* blind_message on message point y with blinding factor r, for an output of
\* denomination value.
BlindMessage(value, y, r) ==
    /\ exchange.stage = "none"
    /\ LET m == blind_message(y, r)
       IN  exchange' =
              IF m.panicked
              THEN [exchange EXCEPT !.stage = "panic", !.value = value, !.y = y,
                                    !.blind_factor = r,
                                    !.panicked = "blind_message"]
              ELSE [exchange EXCEPT !.stage = "blinded", !.value = value, !.y = y,
                                    !.blinded_point = m.blinded_point,
                                    !.blind_factor = m.blind_factor]
    /\ UNCHANGED <<keys, spent, notes, last, accepted, pc, tnote, tret, retry>>

\* blind_sign on the blinded point with the key of the denomination and
\* nonce r.
BlindSign(r) ==
    /\ exchange.stage = "blinded"
    /\ LET b == blind_sign(keys[exchange.value].privkey, exchange.blinded_point, r)
       IN  exchange' =
              IF b.panicked
              THEN [exchange EXCEPT !.stage = "panic", !.panicked = "blind_sign"]
              ELSE [exchange EXCEPT !.stage = "signed",
                                    !.sig = b.sig, !.e = b.e, !.s = b.s]
    /\ UNCHANGED <<keys, spent, notes, last, accepted, pc, tnote, tret, retry>>

\* unblind_signature on the signature with the holder's blinding factor and
\* the public key of the denomination.
Unblind ==
    /\ exchange.stage = "signed"
    /\ LET u == unblind_signature(exchange.sig, exchange.blind_factor,
                                  keys[exchange.value].pubkey)
       IN  exchange' =
              IF u.panicked
              THEN [exchange EXCEPT !.stage = "panic", !.panicked = "unblind_signature"]
              ELSE [exchange EXCEPT !.stage = "unblinded", !.c = u.c]
    /\ UNCHANGED <<keys, spent, notes, last, accepted, pc, tnote, tret, retry>>

\* verify_dleq on the proof of the exchange and three points.
VerifyDleq(b_prime, c_prime, a_pub) ==
    /\ exchange.stage = "unblinded"
    /\ LET v == verify_dleq(b_prime, c_prime, a_pub, exchange.e, exchange.s)
       IN  exchange' =
              [exchange EXCEPT !.stage = IF v.panicked THEN "panic" ELSE "verified",
                               !.b_prime = b_prime, !.c_prime = c_prime,
                               !.a_pub = a_pub, !.ok = v.ok,
                               !.panicked = IF v.panicked THEN "verify_dleq" ELSE "none"]
    /\ UNCHANGED <<keys, spent, notes, last, accepted, pc, tnote, tret, retry>>

AnyBlindMessage ==
    \E value \in Denominations, y \in Points, r \in Scalars : BlindMessage(value, y, r)

AnyBlindSign == \E r \in Scalars : BlindSign(r)

AnyVerifyDleq ==
    \E b_prime \in Points, c_prime \in Points, a_pub \in Points :
       VerifyDleq(b_prime, c_prime, a_pub)

BlindNext == AnyBlindMessage \/ AnyBlindSign \/ Unblind \/ AnyVerifyDleq

BlindSpec == Init /\ [][BlindNext]_vars

-----------------------------------------------------------------------------
(* The retry loops of hash_to_curve and random_scalar, one iteration a      *)
(* step.                                                                    *)

\* The byte strings given to hash_to_curve.
HashInputs == 0 .. (8 * (Order + 1) - 1)

\* The 32 bytes a draw of the generator can give random_scalar, as the
\* number they stand for: zero, a non-zero scalar, or a number not below the
\* order.
RandomBytes == 0 .. Order

\* `let mut ctr = 0u32; loop {`
HashToCurveCall(secret) ==
    /\ retry.status = "idle"
    /\ retry' = [NoRetry EXCEPT !.fn = "hash_to_curve", !.status = "looping",
                                !.secret = secret]
    /\ UNCHANGED <<keys, spent, notes, last, accepted, pc, tnote, tret, exchange>>

\* One iteration of the loop of hash_to_curve: return the point of the
\* digest if SecretKey::from_slice accepts it, else `ctr += 1` and go round.
HashToCurveStep ==
    /\ retry.fn = "hash_to_curve"
    /\ retry.status = "looping"
    /\ LET hash == H2CDigest(retry.secret, retry.ctr)
       IN  retry' =
              IF hash >= 1 /\ hash < Order
              THEN [retry EXCEPT !.status = "returned", !.bytes = hash,
                                 !.result = PubFromSecret(hash)]
              ELSE [retry EXCEPT !.bytes = hash, !.ctr = retry.ctr + 1]
    /\ UNCHANGED <<keys, spent, notes, last, accepted, pc, tnote, tret, exchange>>

\* `fn random_scalar() -> Scalar { loop {`
RandomScalarCall ==
    /\ retry.status = "idle"
    /\ retry' = [NoRetry EXCEPT !.fn = "random_scalar", !.status = "looping"]
    /\ UNCHANGED <<keys, spent, notes, last, accepted, pc, tnote, tret, exchange>>

\* One iteration of the loop of random_scalar on the bytes drawn: return the
\* scalar if Scalar::from_be_bytes accepts the bytes and it is not zero,
\* else go round.
RandomScalarDraw(bytes) ==
    /\ retry.fn = "random_scalar"
    /\ retry.status = "looping"
    /\ retry' =
          IF bytes < Order /\ bytes # 0
          THEN [retry EXCEPT !.status = "returned", !.bytes = bytes, !.result = bytes]
          ELSE [retry EXCEPT !.bytes = bytes]
    /\ UNCHANGED <<keys, spent, notes, last, accepted, pc, tnote, tret, exchange>>

\* The caller takes the value returned.
RetryReturn ==
    /\ retry.status = "returned"
    /\ retry' = NoRetry
    /\ UNCHANGED <<keys, spent, notes, last, accepted, pc, tnote, tret, exchange>>

AnyHashToCurveCall == \E secret \in HashInputs : HashToCurveCall(secret)

AnyRandomScalarDraw == \E bytes \in RandomBytes : RandomScalarDraw(bytes)

RetryNext ==
    \/ AnyHashToCurveCall
    \/ HashToCurveStep
    \/ RandomScalarCall
    \/ AnyRandomScalarDraw
    \/ RetryReturn

\* A loop that can take a step takes it.
RetrySpec == Init /\ [][RetryNext]_vars /\ WF_vars(RetryNext)

-----------------------------------------------------------------------------
(* The claims.                                                             *)

\* A note of a configured denomination whose signature_point is
\* private_scalar * y_point.
ValidNote(n) ==
    /\ n.value \in Denominations
    /\ n.c = (keys[n.value].privkey * n.y) % Order

\* Some note of the sequence fails verify_and_spend when the notes are
\* presented in order to a mint whose ledger is sp.
SomeNoteFails(ns, sp) ==
    \E i \in 1 .. Len(ns) :
       \/ ~ValidNote(ns[i])
       \/ ns[i].secret \in sp
       \/ \E j \in 1 .. (i - 1) : ns[j].secret = ns[i].secret

\* The sum of the values as integers.
RECURSIVE MathSum(_, _)
MathSum(values, i) ==
    IF i > Len(values) THEN 0 ELSE values[i] + MathSum(values, i + 1)

InputTotal(call) == MathSum(NoteValuesOf(call.inputs), 1)

OutputTotal(call) == MathSum(OutputValuesOf(call.outputs), 1)

\* C1: of the concurrent verify_and_spend calls on notes carrying the same
\* secret, at most one returns true.
C1_AtMostOneWinner ==
    \A t1, t2 \in Threads :
       (/\ t1 # t2
        /\ pc[t1] = "done" /\ pc[t2] = "done"
        /\ tnote[t1].secret = tnote[t2].secret
        /\ tret[t1]) => ~tret[t2]

\* C2: in a sequential history, verify_and_spend on a valid note whose secret
\* is not in the ledger returns true, and once a call on a secret has
\* returned true every later call on a note with that secret returns false,
\* be it made directly, by swap or by spend.
C2_FirstWinsLaterLose ==
    [][/\ last'.op = "verify_and_spend" =>
            /\ (ValidNote(last'.note) /\ last'.note.secret \notin spent) => last'.ok
            /\ last'.note.secret \in accepted => ~last'.ok
       /\ (/\ last'.op = "swap"
           /\ \E i \in 1 .. Len(last'.inputs) : last'.inputs[i].secret \in accepted)
          => ~last'.ok
       /\ (/\ last'.op = "spend"
           /\ \E i \in 1 .. Len(last'.selected) : last'.selected[i].secret \in accepted)
          => ~last'.ok]_vars

\* A valid note is presented again after a call on its secret returned true,
\* and is refused.
C2_Witness ==
    /\ last.op = "verify_and_spend"
    /\ ValidNote(last.note)
    /\ last.note.secret \in accepted
    /\ ~last.ok

\* C3: swap returns no result and changes nothing when the sum of the input
\* denominations differs from the sum of the output denominations.
C3_MismatchRejected ==
    [][(last'.op = "swap" /\ InputTotal(last') # OutputTotal(last'))
         => (~last'.ok /\ last'.sigs = <<>> /\ spent' = spent)]_vars

\* C4: when an input note of a swap fails verify_and_spend, the swap returns
\* no result, signs nothing and leaves the ledger as it was.
C4_FailedInputNoEffect ==
    [][(last'.op = "swap" /\ SomeNoteFails(last'.inputs, spent))
         => (~last'.ok /\ last'.sigs = <<>> /\ spent' = spent)]_vars

\* C5: when the sums match and some output denomination is not configured,
\* swap returns no result and has inserted no input secret into the ledger;
\* stated for the requests whose inputs would all be accepted.
C5_OutputsCheckedFirst ==
    [][(/\ last'.op = "swap"
        /\ InputTotal(last') = OutputTotal(last')
        /\ ~SomeNoteFails(last'.inputs, spent)
        /\ \E i \in 1 .. Len(last'.outputs) : last'.outputs[i][1] \notin Denominations)
         => (~last'.ok /\ spent' = spent)]_vars

\* C6: a swap that succeeds returns one signature per output, in the order of
\* the request, the i-th being private_scalar(denomination_i) * blinded_point_i,
\* and every input secret is in the ledger.
C6_SwapResult ==
    (last.op = "swap" /\ last.ok) =>
       /\ Len(last.sigs) = Len(last.outputs)
       /\ \A i \in 1 .. Len(last.outputs) :
             /\ last.outputs[i][1] \in Denominations
             /\ last.sigs[i].sig
                   = (keys[last.outputs[i][1]].privkey * last.outputs[i][2]) % Order
       /\ \A j \in 1 .. Len(last.inputs) : last.inputs[j].secret \in spent

\* A swap of two notes for two outputs of different denominations succeeded.
C6_Witness ==
    /\ last.op = "swap"
    /\ last.ok
    /\ Len(last.inputs) = 2
    /\ Len(last.outputs) = 2
    /\ last.outputs[1][1] # last.outputs[2][1]

\* C7: every note verify_and_spend accepts has y_point = hash_to_curve(secret).
C7_AcceptedNoteHashesToSecret ==
    (last.op = "verify_and_spend" /\ last.ok)
       => last.note.y = hash_to_curve(last.note.secret)

\* No prefix of the notes, in stored order, sums to the amount.
NoPrefixSums(ns, amount) ==
    \A k \in 0 .. Len(ns) : MathSum(NoteValuesOf(SubSeq(ns, 1, k)), 1) # amount

\* C8: spend returns false and leaves the wallet and the ledger unchanged
\* when no prefix of the wallet's notes sums to the amount.
C8_NoPrefixNoEffect ==
    [][(last'.op = "spend" /\ NoPrefixSums(notes, last'.amount))
         => (~last'.ok /\ notes' = notes /\ spent' = spent)]_vars

\* C9: when the selected notes sum to the amount and the mint rejects one of
\* them, spend returns false and the wallet's notes are what they were.
C9_RejectionKeepsWallet ==
    [][(/\ last'.op = "spend"
        /\ last'.exit # "panic"
        /\ last'.sum = last'.amount
        /\ SomeNoteFails(last'.selected, spent))
         => (~last'.ok /\ notes' = notes)]_vars

\* A spend of two selected notes was rejected by the mint.
C9_Witness ==
    /\ last.op = "spend"
    /\ last.sum = last.amount
    /\ Len(last.selected) = 2
    /\ ~last.ok
    /\ last.exit = "rejected"
    /\ Len(notes) >= 2

\* C10 as claimed: after a successful spend the wallet holds exactly the
\* notes after the selected prefix.
C10_OnlySelectedRemoved ==
    [][(last'.op = "spend" /\ last'.ok)
         => notes' = SubSeq(notes, Len(last'.selected) + 1, Len(notes))]_vars

\* C10 as amended: after a successful spend the selected notes are a prefix
\* of the former wallet, and the wallet holds, in their order, exactly the
\* former notes whose secret is the secret of no selected note.
C10_RemovedBySecret ==
    [][(last'.op = "spend" /\ last'.ok)
         => /\ last'.selected = SubSeq(notes, 1, Len(last'.selected))
            /\ notes' = SelectSeq(notes,
                  LAMBDA n : \A j \in 1 .. Len(last'.selected) :
                                last'.selected[j].secret # n.secret)]_vars

\* A spend of one note out of three succeeded: the second note, which had
\* the secret of the selected one, is gone with it, and the third is left.
C10_Witness ==
    /\ last.op = "spend"
    /\ last.ok
    /\ Len(last.held) = 3
    /\ Len(last.selected) = 1
    /\ last.held[2].secret = last.selected[1].secret
    /\ notes = <<last.held[3]>>

\* verify_dleq has been called in the exchange, and has returned or panicked.
VerifyCalled ==
    \/ exchange.stage = "verified"
    \/ exchange.stage = "panic" /\ exchange.panicked = "verify_dleq"

\* The points the proof of the exchange was made for: B', C' and A.
ProvedPoints ==
    <<exchange.blinded_point, exchange.sig, keys[exchange.value].pubkey>>

\* The points verify_dleq was given.
VerifiedPoints == <<exchange.b_prime, exchange.c_prime, exchange.a_pub>>

\* C11: for every private scalar sk, message point Y and non-zero blinding
\* factor r with Y + r*G a point, blind_sign returns a signature, and
\* unblinding it with r and pk gives sk*Y, which passes the signature check
\* of verify_and_spend for the denomination.
C11_RoundTrip ==
    /\ exchange.panicked \notin {"blind_sign", "unblind_signature"}
    /\ exchange.stage \in {"unblinded", "verified"} =>
          /\ exchange.c = (keys[exchange.value].privkey * exchange.y) % Order
          /\ ValidNote(Note(exchange.value, 1, exchange.y, exchange.c))

\* C12: blind_sign never aborts, and verify_dleq returns true on the proof it
\* returns when given the blinded point, the signature and A = a*G.
C12_DleqComplete ==
    /\ exchange.panicked # "blind_sign"
    /\ (VerifyCalled /\ VerifiedPoints = ProvedPoints) =>
          (exchange.stage = "verified" /\ exchange.ok)

\* C13: verify_dleq returns false on a proof made by blind_sign when one of
\* the blinded point, the signature and A is replaced by a different point.
C13_DleqSound ==
    (/\ VerifyCalled
     /\ Cardinality({i \in 1 .. 3 : VerifiedPoints[i] # ProvedPoints[i]}) = 1)
       => (exchange.stage = "verified" /\ ~exchange.ok)

\* C14: in every state, the spent set holds exactly the secrets on which a
\* verify_and_spend call, direct or made by swap or spend, has returned true.
C14_LedgerIsAccepted == spent = accepted

\* A swap has failed on its outputs after its inputs were accepted.
C14_Witness ==
    /\ last.op = "swap"
    /\ last.exit = "output"
    /\ Len(last.inputs) = 2
    /\ \A i \in 1 .. 2 : last.inputs[i].secret \in accepted
    /\ Cardinality(spent) = 2

\* The registry as Mint::new leaves it: one keypair for each configured
\* denomination and for no other value, stored under its own denomination,
\* with pubkey = privkey * G.
RegistryWellFormed ==
    /\ DOMAIN keys = Denominations
    /\ \A v \in NoteValues \ Denominations : v \notin DOMAIN keys
    /\ \A v \in DOMAIN keys :
          /\ keys[v].value = v
          /\ keys[v].privkey \in Scalars
          /\ keys[v].pubkey = keys[v].privkey % Order

\* C15: the registry is well formed in every state, and no step of
\* verify_and_spend, swap, mint_note or spend changes it.
C15_KeyRegistry == [](RegistryWellFormed) /\ [][keys' = keys]_vars

\* After the wallet and the mint have worked, a note of an unconfigured
\* denomination is presented and refused.
C15_Witness ==
    /\ last.op = "verify_and_spend"
    /\ last.note.value \notin DOMAIN keys
    /\ ~last.ok
    /\ Len(notes) >= 1
    /\ spent # {}

\* C16: verify_and_spend returns false and leaves the ledger unchanged on a
\* note whose denomination has no keypair or whose signature_point is not
\* private_scalar * y_point; the secret of such a note is not in the ledger
\* for that, and a valid note with it is accepted afterwards.
C16_InvalidNoteNoEffect ==
    [][last'.op = "verify_and_spend" =>
          /\ ~ValidNote(last'.note) =>
                /\ ~last'.ok
                /\ spent' = spent
                /\ accepted' = accepted
          /\ (ValidNote(last'.note) /\ last'.note.secret \notin accepted) => last'.ok]_vars

\* A forged note has been refused and its secret is not in the ledger.
C16_Witness ==
    /\ last.op = "verify_and_spend"
    /\ last.note.value \in DOMAIN keys
    /\ ~ValidNote(last.note)
    /\ ~last.ok
    /\ last.note.secret \notin spent

\* C17: when spend returns false because the mint rejected one of the
\* selected notes, the ledger is what it was before the call.
C17_FailedSpendNoEffect ==
    [][(/\ last'.op = "spend"
        /\ last'.exit # "panic"
        /\ last'.sum = last'.amount
        /\ SomeNoteFails(last'.selected, spent))
         => (~last'.ok /\ spent' = spent)]_vars

\* C18: swap returns a result only if the input denominations and the output
\* denominations have the same sum as integers.
C18_ValueConserved ==
    (last.op = "swap" /\ last.ok) => InputTotal(last) = OutputTotal(last)

\* C20: no step removes a secret from the spent set.
C20_LedgerGrows == [][spent \subseteq spent']_vars

\* A call has failed on a ledger that holds two secrets.
C20_Witness ==
    /\ last.op = "verify_and_spend"
    /\ ~last.ok
    /\ last.note.secret \in spent
    /\ Cardinality(spent) = 2

\* C19: a retry loop that has begun stops, by returning a value or by
\* reporting a fatal error, also when every candidate it is given is an
\* invalid scalar.
C19_RetryLoopsStop ==
    (retry.status = "looping") ~> (retry.status \in {"returned", "fatal"})

=============================================================================
